---------------------------- MODULE Spec2Model ----------------------------
(***************************************************************************)
(* A model of the two PTY host programs of obsidian-opencode-sidebar:      *)
(*   src/terminal_pty.py  (Unix: pty.fork + select loop)                   *)
(*   src/terminal_win.py  (Windows: pywinpty + two threads)                *)
(* Bytes and characters are their code points (27 = ESC, 7 = BEL, ...).    *)
(* Python sequences are 0-based; the helpers below keep Python's indices.  *)
(***************************************************************************)
EXTENDS Integers, Sequences, FiniteSets, TLC

VARIABLES
    \* ---- harness around handle_resize_escape (terminal_pty.py:27-55)
    cPc,        \* "call" before the call, "returned" / "raised" after it
    cData,      \* the chunk passed as `data`
    cIoctlOk,   \* whether fcntl.ioctl(TIOCSWINSZ) succeeds during the call
    cKillOk,    \* whether os.kill(child_pid, SIGWINCH) succeeds during the call
    cErrOut,    \* what a write to sys.stderr does during the call
    cRet,       \* what the call produced: [result, events, raised, exc]
    \* ---- terminal_pty.py: main() and its environment
    child_pid,  \* module global child_pid (0 models None)
    winsize,    \* <<cols, rows>> held by the kernel for the pty
    uPc,        \* position of main(): "start", "fork", "setsize" (at line
                \* 88), "sizing" (inside that set_size call), "setup",
                \* "select", "selerr", "master", "mwrite", "stdin", "swrite",
                \* "waitpid", "close", "kill", "exit" ("idle": not run)
    argv,       \* the command line: [argc, cols, rows]
    execFailed, \* os.execvp raised in the forked child
    child,      \* the child process: "none", "forked" (at line 72),
                \* "sizing" (inside the set_size call of line 76),
                \* "sized" (at os.execvp, line 81), "alive",
                \* "zombie", "reaped" (by os.waitpid), "gone" (exited and
                \* reaped by the kernel: SIGCHLD is ignored)
    slaveOpen,  \* some process holds the slave side of the pty open
    rlist,      \* what select returned: a subset of {"fd", "stdin"}
    masterBuf,  \* chunks waiting on the master side that are not yet read
    produced,   \* how many chunks the terminal has put on the master side
    uData,      \* the chunks os.read returned as one `data`, not yet
                \* written to stdout
    stdoutLog,  \* chunks written to the embedder's stdout, in order
    stdinBuf,   \* bytes the embedder sent that are not yet read
    stdinEof,   \* the embedder closed its end of stdin
    sent,       \* how many chunks the embedder has sent
    wrPending,  \* the bytes handed to os.write(fd, data), until it returns
    ptyIn,      \* bytes written to the master by os.write calls that returned
    echoDue,    \* echoes of such bytes the terminal has still to put on the
                \* master side
    sigLog,     \* signals sent to the child process, in order (a SIGWINCH
                \* for the forked interpreter, which ignores it, is left out)
    fdOpen,     \* the master fd is open
    closeCalls, \* calls of os.close(fd)
    killCalls,  \* calls of os.kill(pid, SIGTERM)
    exitStatus, \* exit status of the host process (-1 while it runs, -2:
                \* died of SIGINT)
    uncaught,   \* an exception is propagating out of main()
    masterEnded,\* a read of the master returned b'' or raised OSError
    interrupted,\* KeyboardInterrupt was raised (in either program)
    \* ---- terminal_win.py: WindowsPTY, its two threads and their environment
    wPc,        \* main thread: "start" (lines 27-38), "spawned" (lines
                \* 40-42), "enter" (lines 45, 78), "loop", "read", "inner",
                \* "resize", "flush", "finally", "return" (start() is left,
                \* the interpreter is about to exit), "done" (the program
                \* has ended) ("idle": not run)
    oPc,        \* reader thread: "none", "loop", "read", "finally", "done"
    wCols,      \* self.cols
    wRows,      \* self.rows
    proc,       \* self.proc: "None" or "PtyProcess"
    running,    \* self.running
    procAlive,  \* self.proc.isalive()
    ptyDims,    \* <<rows, cols>> the PTY of self.proc holds
    buffer,     \* the local `buffer` of handle_input
    wInput,     \* the characters the embedder sends on stdin, in order
    wPos,       \* how many of them sys.stdin.read has returned
    readFailed, \* a sys.stdin.read(1) of handle_input has raised
    wEof,       \* stdin ends after them (otherwise reads block)
    childIn,    \* the strings passed to self.proc.write, in order
    winCalls,   \* the <<rows, cols>> passed to self.proc.setwinsize, in order
    resizeErrs, \* "Resize error" lines written to stderr
    ptyOut,     \* strings the child wrote, not yet returned by proc.read
    wProduced,  \* how many strings the child has written
    wStdout     \* strings written to sys.stdout, in order

codecVars == <<cPc, cData, cIoctlOk, cKillOk, cErrOut, cRet>>
unixVars == <<child_pid, winsize, uPc, argv, execFailed, child, slaveOpen,
              rlist, masterBuf, produced, uData, stdoutLog, stdinBuf, stdinEof,
              sent, wrPending, ptyIn, echoDue,
              sigLog, fdOpen, closeCalls, killCalls, exitStatus, uncaught,
              masterEnded, interrupted>>
\* the variables of the Unix program but `interrupted`
unixRest == <<child_pid, winsize, uPc, argv, execFailed, child, slaveOpen,
              rlist, masterBuf, produced, uData, stdoutLog, stdinBuf, stdinEof,
              sent, wrPending, ptyIn, echoDue,
              sigLog, fdOpen, closeCalls, killCalls, exitStatus, uncaught,
              masterEnded>>
winVars == <<wPc, oPc, wCols, wRows, proc, running, procAlive, ptyDims, buffer,
             wInput, wPos, readFailed, wEof, childIn, winCalls, resizeErrs,
             ptyOut, wProduced, wStdout>>
vars == <<codecVars, unixVars, winVars>>

\* ------------------------------------------------------------------------
\* Bounds of the model (not program constants)
\* ------------------------------------------------------------------------
MaxSegs == 3
MaxOut == 2
MaxIn == 1
MaxWinSegs == 2
MaxWinOut == 1

\* ------------------------------------------------------------------------
\* Python helpers
\* ------------------------------------------------------------------------
Min(a, b) == IF a < b THEN a ELSE b

\* s[a:b] for 0 <= a (Python slice, clipped at len(s))
Slice(s, a, b) == SubSeq(s, a + 1, Min(b, Len(s)))

\* s[a:]
SliceFrom(s, a) == SubSeq(s, a + 1, Len(s))

\* s.find(ch, start) for a one-element needle: lowest index >= start, or -1
Find(s, ch, start) ==
    LET hits == {j \in start..(Len(s) - 1) : s[j + 1] = ch}
    IN  IF hits = {} THEN -1
        ELSE CHOOSE j \in hits : \A k \in hits : j <= k

\* s.startswith(p)
StartsWith(s, p) == Len(s) >= Len(p) /\ SubSeq(s, 1, Len(p)) = p

\* s.split(sep) for a one-element separator: the list of fields
RECURSIVE Split(_, _)
Split(s, sep) ==
    LET j == Find(s, sep, 0)
    IN  IF j = -1 THEN <<s>>
        ELSE <<Slice(s, 0, j)>> \o Split(SliceFrom(s, j + 1), sep)

\* a continuation byte of UTF-8
IsCont(b) == b >= 128 /\ b <= 191

\* how many bytes the UTF-8 sequence at the head of s takes (0: s does not
\* start with a valid sequence; overlong forms, surrogates and code points
\* above U+10FFFF are invalid, as in bytes.decode)
Utf8Len(s) ==
    LET n == Len(s)
        b0 == s[1]
    IN  IF b0 < 128 THEN 1
        ELSE IF b0 >= 194 /\ b0 <= 223
        THEN IF n >= 2 /\ IsCont(s[2]) THEN 2 ELSE 0
        ELSE IF b0 >= 224 /\ b0 <= 239
        THEN IF /\ n >= 3 /\ IsCont(s[2]) /\ IsCont(s[3])
                /\ (b0 = 224 => s[2] >= 160)
                /\ (b0 = 237 => s[2] <= 159)
             THEN 3 ELSE 0
        ELSE IF b0 >= 240 /\ b0 <= 244
        THEN IF /\ n >= 4 /\ IsCont(s[2]) /\ IsCont(s[3]) /\ IsCont(s[4])
                /\ (b0 = 240 => s[2] >= 144)
                /\ (b0 = 244 => s[2] <= 143)
             THEN 4 ELSE 0
        ELSE 0

\* the code point of a valid sequence of k bytes at the head of s
Utf8Point(s, k) ==
    IF k = 1 THEN s[1]
    ELSE IF k = 2 THEN (s[1] - 192) * 64 + (s[2] - 128)
    ELSE IF k = 3 THEN (s[1] - 224) * 4096 + (s[2] - 128) * 64 + (s[3] - 128)
    ELSE (s[1] - 240) * 262144 + (s[2] - 128) * 4096 + (s[3] - 128) * 64
           + (s[4] - 128)

\* bytes.decode('utf-8'): [ok |-> FALSE] models UnicodeDecodeError (a
\* ValueError); chars is the string as a sequence of code points
RECURSIVE Utf8Decode(_)
Utf8Decode(s) ==
    IF s = <<>> THEN [ok |-> TRUE, chars |-> <<>>]
    ELSE LET k == Utf8Len(s)
         IN  IF k = 0 THEN [ok |-> FALSE, chars |-> <<>>]
             ELSE LET rest == Utf8Decode(SubSeq(s, k + 1, Len(s)))
                  IN  IF rest.ok
                      THEN [ok |-> TRUE,
                            chars |-> <<Utf8Point(s, k)>> \o rest.chars]
                      ELSE [ok |-> FALSE, chars |-> <<>>]

\* characters int() skips at both ends of a str: the six ASCII ones of C's
\* isspace (not 28-31) and the Unicode spaces from U+0085 on, which int()
\* first turns into ' '
IsSpace(ch) ==
    \/ ch \in {9, 10, 11, 12, 13, 32}
    \/ ch \in {133, 160, 5760, 8232, 8233, 8239, 8287, 12288}
    \/ ch >= 8192 /\ ch <= 8202

\* the code points of the digit zero of every decimal script (category Nd,
\* Unicode 14: each is followed by its digits one to nine)
DigitZeros ==
    { 48, 1632, 1776, 1984, 2406, 2534, 2662, 2790, 2918, 3046, 3174, 3302,
      3430, 3558, 3664, 3792, 3872, 4160, 4240, 6112, 6160, 6470, 6608, 6784,
      6800, 6992, 7088, 7232, 7248, 42528, 43216, 43264, 43472, 43504, 43600,
      44016, 65296, 66720, 68912, 69734, 69872, 69942, 70096, 70384, 70736,
      70864, 71248, 71360, 71472, 71904, 72016, 72784, 73040, 73120, 92768,
      92864, 93008, 120782, 120792, 120802, 120812, 120822, 123200, 123632,
      125264, 130032 }

\* a character int() reads as a decimal digit, and its value
IsDigit(ch) == \E z \in DigitZeros : ch >= z /\ ch <= z + 9
DigitOf(ch) == LET z == CHOOSE y \in DigitZeros : ch >= y /\ ch <= y + 9 IN ch - z

RECURSIVE LStrip(_)
LStrip(s) == IF s # <<>> /\ IsSpace(Head(s)) THEN LStrip(Tail(s)) ELSE s

RECURSIVE RStrip(_)
RStrip(s) ==
    IF s # <<>> /\ IsSpace(s[Len(s)]) THEN RStrip(SubSeq(s, 1, Len(s) - 1)) ELSE s

\* sys.get_int_max_str_digits(): int() refuses a decimal literal of more
\* digits (leading zeros counted, '_' not)
MaxStrDigits == 4300

\* the digits part of an int() literal: digits, single '_' only between digits
DigitsOk(s) ==
    /\ s # <<>>
    /\ Cardinality({k \in 1..Len(s) : IsDigit(s[k])}) <= MaxStrDigits
    /\ \A k \in 1..Len(s) : IsDigit(s[k]) \/ s[k] = 95
    /\ IsDigit(s[1]) /\ IsDigit(s[Len(s)])
    /\ \A k \in 1..(Len(s) - 1) : ~(s[k] = 95 /\ s[k + 1] = 95)

RECURSIVE DigitsVal(_, _)
DigitsVal(s, acc) ==
    IF s = <<>> THEN acc
    ELSE IF Head(s) = 95 THEN DigitsVal(Tail(s), acc)
    ELSE DigitsVal(Tail(s), 10 * acc + DigitOf(Head(s)))

\* int(s) for a str s given as code points: [ok |-> FALSE] models ValueError
PyInt(s) ==
    LET t == RStrip(LStrip(s))
        signed == t # <<>> /\ Head(t) \in {43, 45}
        d == IF signed THEN Tail(t) ELSE t
    IN  IF DigitsOk(d)
        THEN [ok |-> TRUE,
              val |-> IF signed /\ Head(t) = 45 THEN 0 - DigitsVal(d, 0)
                      ELSE DigitsVal(d, 0)]
        ELSE [ok |-> FALSE, val |-> 0]

\* ------------------------------------------------------------------------
\* terminal_pty.py: set_size and handle_resize_escape
\* ------------------------------------------------------------------------
\* b'\x1b]RESIZE;' : nine bytes
ResizePrefix == <<27, 93, 82, 69, 83, 73, 90, 69, 59>>

\* struct.pack('HHHH', rows, cols, 0, 0) accepts 0..65535 only
FitsH(n) == n >= 0 /\ n <= 65535

\* set_size(fd, cols, rows): "ok", "struct.error" (pack) or "OSError" (ioctl)
set_size(cols, rows, ioctlOk) ==
    IF ~(FitsH(rows) /\ FitsH(cols)) THEN "struct.error"
    ELSE IF ~ioctlOk THEN "OSError"
    ELSE "ok"

\* a variant of line 37 comparing with the first eight bytes of the literal
PrefixAt_Eight(data, i) == Slice(data, i, i + 8) = SubSeq(ResizePrefix, 1, 8)

\* the test of line 37: an 8-byte slice compared with the 9-byte literal
PrefixAt(data, i) == Slice(data, i, i + 8) = ResizePrefix

\* line 50: sys.stderr.write in the handler returns, raises OSError (stderr
\* is a pipe whose reader is gone) or raises AttributeError (sys.stderr is
\* None); nothing protects the handler
StderrOutcomes == {"ok", "OSError", "AttributeError"}

\* line 50 after the events done so far: the error line is written, or the
\* exception of the write leaves handle_resize_escape
Report(done, errOut) ==
    IF errOut = "ok"
    THEN [events |-> done \o <<<<"stderr", 0, 0>>>>, raised |-> FALSE, exc |-> ""]
    ELSE [events |-> done, raised |-> TRUE, exc |-> errOut]

\* lines 42-50: the try block for the span data[i+8:end]; returns the events
\* it performs, whether an exception leaves handle_resize_escape, and which
\* (killOk: os.kill(child_pid, SIGWINCH) of line 48 does not raise OSError).
\* Events: "set_size" (the ioctl of line 24 returned), "os.kill" (line 48
\* makes the call), "SIGWINCH" (the call delivered the signal), "stderr"
\* (line 50 wrote the error line)
TryResize(params, ioctlOk, killOk, errOut) ==
    LET dec == Utf8Decode(params)
        fields == Split(dec.chars, 59)
        cols == IF Len(fields) = 2 THEN PyInt(fields[1]) ELSE [ok |-> FALSE, val |-> 0]
        rows == IF Len(fields) = 2 THEN PyInt(fields[2]) ELSE [ok |-> FALSE, val |-> 0]
        how == set_size(cols.val, rows.val, ioctlOk)
    IN  IF ~dec.ok \/ Len(fields) # 2 \/ ~cols.ok \/ ~rows.ok
        THEN Report(<<>>, errOut)
        ELSE IF how = "struct.error"
        THEN [events |-> <<>>, raised |-> TRUE, exc |-> "struct.error"]
        ELSE IF how = "OSError"
        THEN Report(<<>>, errOut)
        ELSE IF child_pid = 0
        THEN [events |-> <<<<"set_size", cols.val, rows.val>>>>,
              raised |-> FALSE, exc |-> ""]
        ELSE IF killOk
        THEN [events |-> <<<<"set_size", cols.val, rows.val>>,
                           <<"os.kill", child_pid, 0>>,
                           <<"SIGWINCH", child_pid, 0>>>>,
              raised |-> FALSE, exc |-> ""]
        ELSE Report(<<<<"set_size", cols.val, rows.val>>,
                      <<"os.kill", child_pid, 0>>>>, errOut)

\* lines 35-54: the while loop from index i with the result built so far
RECURSIVE ScanFrom(_, _, _, _, _, _, _)
ScanFrom(data, i, ioctlOk, killOk, errOut, result, events) ==
    IF i >= Len(data)
    THEN [result |-> result, events |-> events, raised |-> FALSE, exc |-> ""]
    ELSE LET end == Find(data, 7, i)
         IN  IF PrefixAt(data, i) /\ end # -1
             THEN LET t == TryResize(Slice(data, i + 8, end), ioctlOk, killOk,
                                     errOut)
                  IN  IF t.raised
                      THEN [result |-> result, events |-> events \o t.events,
                            raised |-> TRUE, exc |-> t.exc]
                      ELSE ScanFrom(data, end + 1, ioctlOk, killOk, errOut,
                                    result, events \o t.events)
             ELSE ScanFrom(data, i + 1, ioctlOk, killOk, errOut,
                           result \o Slice(data, i, i + 1), events)

handle_resize_escape(data, ioctlOk, killOk, errOut) ==
    ScanFrom(data, 0, ioctlOk, killOk, errOut, <<>>, <<>>)

\* the events of one kind among those a call performed
EventsOf(events, op) == SelectSeq(events, LAMBDA ev : ev[1] = op)

\* the size the pty holds after the events of a call
RECURSIVE SizeAfter(_, _)
SizeAfter(size, events) ==
    IF events = <<>> THEN size
    ELSE IF Head(events)[1] = "set_size"
    THEN SizeAfter(<<Head(events)[2], Head(events)[3]>>, Tail(events))
    ELSE SizeAfter(size, Tail(events))

\* ------------------------------------------------------------------------
\* Inputs: chunks built from at most MaxSegs segments
\* ------------------------------------------------------------------------
Directive(body) == ResizePrefix \o body \o <<7>>

B_80_24  == <<56, 48, 59, 50, 52>>
B_100_30 == <<49, 48, 48, 59, 51, 48>>
B_abc_10 == <<97, 98, 99, 59, 49, 48>>
B_80     == <<56, 48>>
B_70000_24 == <<55, 48, 48, 48, 48, 59, 50, 52>>

Segments ==
    { <<97>>, <<27>>, <<7>>,
      SubSeq(ResizePrefix, 1, 8), ResizePrefix, B_80,
      Directive(B_80_24), Directive(B_100_30),
      Directive(B_abc_10), Directive(B_80), Directive(B_70000_24) }

RECURSIVE SegConcats(_)
SegConcats(n) ==
    IF n = 0 THEN {<<>>}
    ELSE LET shorter == SegConcats(n - 1)
         IN  shorter \cup {c \o s : c \in shorter, s \in Segments}

Chunks == SegConcats(MaxSegs)

\* ------------------------------------------------------------------------
\* SpecCodec: one call of handle_resize_escape on a chunk
\* ------------------------------------------------------------------------
InitialSize == <<80, 24>>
ChildPid == 4242

NoRet == [result |-> <<>>, events |-> <<>>, raised |-> FALSE, exc |-> ""]
NoArgv == [argc |-> 0, cols |-> <<>>, rows |-> <<>>]

\* main() is not running: its variables rest
UnixIdle ==
    /\ uPc = "idle" /\ argv = NoArgv /\ execFailed = FALSE /\ child = "alive"
    /\ slaveOpen = TRUE /\ wrPending = <<>>
    /\ rlist = {} /\ masterBuf = <<>> /\ produced = 0 /\ uData = <<>>
    /\ stdoutLog = <<>> /\ stdinBuf = <<>> /\ stdinEof = FALSE /\ sent = 0
    /\ ptyIn = <<>> /\ echoDue = <<>> /\ sigLog = <<>> /\ fdOpen = TRUE
    /\ closeCalls = 0
    /\ killCalls = 0 /\ exitStatus = -1 /\ uncaught = FALSE
    /\ masterEnded = FALSE /\ interrupted = FALSE

\* the harness is not running
CodecIdle ==
    /\ cPc = "idle" /\ cData = <<>> /\ cIoctlOk = TRUE /\ cKillOk = TRUE
    /\ cErrOut = "ok"
    /\ cRet = NoRet

\* terminal_win.py is not running
WinIdle ==
    /\ wPc = "idle" /\ oPc = "none" /\ wCols = 0 /\ wRows = 0
    /\ proc = "None"
    /\ running = FALSE /\ procAlive = FALSE /\ ptyDims = <<0, 0>>
    /\ buffer = <<>> /\ wInput = <<>> /\ wPos = 0 /\ wEof = FALSE
    /\ readFailed = FALSE
    /\ childIn = <<>> /\ winCalls = <<>> /\ resizeErrs = 0 /\ ptyOut = <<>>
    /\ wProduced = 0 /\ wStdout = <<>>

\* the signals the events of a call send to the child of a pty that held
\* `size`: the SIGWINCH of an os.kill call that succeeded (line 48), and the
\* SIGWINCH the kernel itself sends to the terminal's foreground process
\* group when the ioctl of line 24 changes the size
RECURSIVE SignalsOf(_, _)
SignalsOf(size, events) ==
    IF events = <<>> THEN <<>>
    ELSE LET ev == Head(events)
             now == IF ev[1] = "set_size" THEN <<ev[2], ev[3]>> ELSE size
         IN  (IF ev[1] = "SIGWINCH" \/ now # size THEN <<"SIGWINCH">>
              ELSE <<>>) \o SignalsOf(now, Tail(events))

\* the outcome of os.kill is drawn only where line 48 can be reached (after
\* a failing ioctl it cannot)
CodecInit ==
    /\ cPc = "call"
    /\ cData \in Chunks
    /\ cIoctlOk \in BOOLEAN
    /\ cKillOk \in (IF cIoctlOk THEN BOOLEAN ELSE {TRUE})
    /\ cErrOut \in StderrOutcomes
    /\ cRet = NoRet
    /\ child_pid = ChildPid
    /\ winsize = InitialSize
    /\ UnixIdle
    /\ WinIdle

CodecCall ==
    /\ cPc = "call"
    /\ LET r == handle_resize_escape(cData, cIoctlOk, cKillOk, cErrOut)
       IN  /\ cRet' = r
           /\ cPc' = IF r.raised THEN "raised" ELSE "returned"
           /\ winsize' = SizeAfter(winsize, r.events)
           /\ sigLog' = sigLog \o SignalsOf(winsize, r.events)
    /\ UNCHANGED <<winVars, cData, cIoctlOk, cKillOk, cErrOut, child_pid, uPc,
                   argv, execFailed, child, slaveOpen, wrPending, rlist,
                   masterBuf, produced, uData, stdoutLog, stdinBuf, stdinEof,
                   sent, ptyIn, echoDue, fdOpen, closeCalls, killCalls,
                   exitStatus, uncaught, masterEnded, interrupted>>

CodecNext == CodecCall

SpecCodec == CodecInit /\ [][CodecNext]_vars

\* ------------------------------------------------------------------------
\* terminal_pty.py: main()
\* ------------------------------------------------------------------------
B_24    == <<50, 52>>
B_abc   == <<97, 98, 99>>
B_70000 == <<55, 48, 48, 48, 48>>

\* command lines: too few arguments, good ones, a non-integer width, a width
\* that does not fit the winsize field
Argvs ==
    { [argc |-> 3, cols |-> B_80, rows |-> B_24],
      [argc |-> 4, cols |-> B_80, rows |-> B_24],
      [argc |-> 4, cols |-> B_abc, rows |-> B_24],
      [argc |-> 4, cols |-> B_70000, rows |-> B_24] }

\* what the embedder sends on stdin
UnixChunks == { <<97>>, Directive(B_80_24) }

\* lines 61-96, before the try of line 98
PreLoopPcs == {"start", "fork", "setsize", "sizing", "setup"}

\* lines 99-129
LoopPcs ==
    {"select", "selerr", "master", "mwrite", "stdin", "swrite", "waitpid"}

\* lines 133-141
TeardownPcs == {"close", "kill"}

\* what the terminal puts on the master side: output of the child (id 0 is
\* the traceback of a child whose execvp failed) or the line discipline's
\* echo of bytes that were written to the master; `whole` is FALSE in the
\* stdout log for a write that took only a proper part of the chunk
OutChunk(k) == [kind |-> "out", id |-> k, bytes |-> <<>>, whole |-> TRUE]

\* what a terminal in the mode of a fresh pty (ECHO, ECHOCTL) echoes for the
\* bytes of UnixChunks: a printable character as itself, ESC and BEL as '^'
\* and the character 64 above
RECURSIVE EchoOf(_)
EchoOf(b) ==
    IF b = <<>> THEN <<>>
    ELSE (IF Head(b) \in {7, 27} THEN <<94, Head(b) + 64>> ELSE <<Head(b)>>)
           \o EchoOf(Tail(b))

EchoChunk(b) == [kind |-> "echo", id |-> 0, bytes |-> EchoOf(b), whole |-> TRUE]
PartOf(c) == [c EXCEPT !.whole = FALSE]

\* what a write that took only a proper part of `data` has written: some of
\* its chunks whole (not all of them), or those and a part of the next one
PartsOf(data) ==
    {SubSeq(data, 1, k) : k \in 1..(Len(data) - 1)}
      \cup {Append(SubSeq(data, 1, k), PartOf(data[k + 1])) :
               k \in 0..(Len(data) - 1)}

UnixInit ==
    /\ CodecIdle
    /\ WinIdle
    /\ child_pid = 0
    /\ winsize = <<0, 0>>
    /\ uPc = "start"
    /\ argv \in Argvs
    /\ execFailed = FALSE
    /\ child = "none"
    /\ slaveOpen = FALSE
    /\ rlist = {} /\ masterBuf = <<>> /\ produced = 0 /\ uData = <<>>
    /\ stdoutLog = <<>> /\ stdinBuf = <<>> /\ stdinEof = FALSE /\ sent = 0
    /\ wrPending = <<>>
    /\ ptyIn = <<>> /\ echoDue = <<>> /\ sigLog = <<>> /\ fdOpen = FALSE
    /\ closeCalls = 0
    /\ killCalls = 0 /\ exitStatus = -1 /\ uncaught = FALSE
    /\ masterEnded = FALSE /\ interrupted = FALSE

\* `break` out of the loop after the master read ended (lines 108-109, 112-113)
OnMasterEnd == "close"

\* lines 61-67: the usage check (sys.exit(1)) and the two int() calls (a
\* ValueError leaves main())
UStart ==
    /\ uPc = "start"
    /\ IF argv.argc < 4
       THEN uPc' = "exit" /\ exitStatus' = 1 /\ UNCHANGED uncaught
       ELSE IF ~PyInt(argv.cols).ok \/ ~PyInt(argv.rows).ok
       THEN uPc' = "exit" /\ exitStatus' = 1 /\ uncaught' = TRUE
       ELSE uPc' = "fork" /\ UNCHANGED <<exitStatus, uncaught>>
    /\ UNCHANGED <<codecVars, winVars, child_pid, winsize, argv, execFailed,
                   child, slaveOpen, rlist, masterBuf, produced, uData,
                   stdoutLog, stdinBuf, stdinEof, sent, wrPending, ptyIn,
                   echoDue, sigLog, fdOpen, closeCalls, killCalls,
                   masterEnded, interrupted>>

\* lines 70, 84-85: pty.fork() returns in the parent with the child running
\* lines 72-81 on the slave side, or raises OSError
UFork ==
    /\ uPc = "fork"
    /\ \/ /\ child' = "forked"
          /\ slaveOpen' = TRUE
          /\ child_pid' = ChildPid
          /\ fdOpen' = TRUE
          /\ uPc' = "setsize"
          /\ UNCHANGED <<exitStatus, uncaught>>
       \/ /\ uPc' = "exit" /\ exitStatus' = 1 /\ uncaught' = TRUE
          /\ UNCHANGED <<child, slaveOpen, child_pid, fdOpen>>
    /\ UNCHANGED <<codecVars, winVars, winsize, argv, execFailed, rlist,
                   masterBuf, produced, uData, stdoutLog, stdinBuf, stdinEof,
                   sent, wrPending, ptyIn, echoDue, sigLog, closeCalls,
                   killCalls, masterEnded, interrupted>>

\* line 88: main() calls set_size(fd, cols, rows)
USetSizeCall ==
    /\ uPc = "setsize"
    /\ uPc' = "sizing"
    /\ UNCHANGED <<codecVars, winVars, child_pid, winsize, argv, execFailed,
                   child, slaveOpen, rlist, masterBuf, produced, uData,
                   stdoutLog, stdinBuf, stdinEof, sent, wrPending, ptyIn,
                   echoDue, sigLog, fdOpen, closeCalls, killCalls, exitStatus,
                   uncaught, masterEnded, interrupted>>

\* line 88: the set_size call returns with the size applied, or (outside any
\* try) its struct.error or OSError leaves main() with the fd open and the
\* child running.  When the ioctl changes the size (the child's own call of
\* line 76 failed) the kernel sends SIGWINCH to the command running on the
\* terminal.
USetSize ==
    /\ uPc = "sizing"
    /\ \E ioctlOk \in BOOLEAN :
          IF set_size(PyInt(argv.cols).val, PyInt(argv.rows).val, ioctlOk) = "ok"
          THEN LET size == <<PyInt(argv.cols).val, PyInt(argv.rows).val>>
               IN  /\ winsize' = size
                   /\ sigLog' = IF size # winsize /\ child = "alive"
                                THEN Append(sigLog, "SIGWINCH") ELSE sigLog
                   /\ uPc' = "setup"
                   /\ UNCHANGED <<exitStatus, uncaught>>
          ELSE /\ uPc' = "exit" /\ exitStatus' = 1 /\ uncaught' = TRUE
               /\ UNCHANGED <<winsize, sigLog>>
    /\ UNCHANGED <<codecVars, winVars, child_pid, argv, execFailed, child,
                   slaveOpen, rlist, masterBuf, produced, uData, stdoutLog,
                   stdinBuf, stdinEof, sent, wrPending, ptyIn, echoDue, fdOpen,
                   closeCalls, killCalls, masterEnded, interrupted>>

\* lines 91-96: O_NONBLOCK on stdin, stdout and stdin reopened unbuffered; an
\* exception here (stdin closed: sys.stdin is None) leaves main() as well
USetup ==
    /\ uPc = "setup"
    /\ \/ /\ uPc' = "select"
          /\ UNCHANGED <<exitStatus, uncaught>>
       \/ /\ uPc' = "exit" /\ exitStatus' = 1 /\ uncaught' = TRUE
    /\ UNCHANGED <<codecVars, winVars, child_pid, winsize, argv, execFailed,
                   child, slaveOpen, rlist, masterBuf, produced, uData,
                   stdoutLog, stdinBuf, stdinEof, sent, wrPending, ptyIn,
                   echoDue, sigLog, fdOpen, closeCalls, killCalls,
                   masterEnded, interrupted>>

\* the master is readable: output is waiting, or no process holds the slave
\* side any more (the read then fails with EIO)
FdReady == masterBuf # <<>> \/ ~slaveOpen
StdinReady == stdinBuf # <<>> \/ stdinEof

\* line 101: select returns what is ready (nothing: the 0.1 s timeout)
USelect ==
    /\ uPc = "select"
    /\ rlist' = (IF FdReady THEN {"fd"} ELSE {})
                  \cup (IF StdinReady THEN {"stdin"} ELSE {})
    /\ uPc' = "master"
    /\ UNCHANGED <<codecVars, winVars, child_pid, winsize, argv, execFailed,
                   child, slaveOpen, masterBuf, produced, uData, stdoutLog,
                   stdinBuf, stdinEof, sent, wrPending, ptyIn, echoDue,
                   sigLog, fdOpen, closeCalls, killCalls, exitStatus,
                   uncaught, masterEnded, interrupted>>

\* line 102: select raises and the handler is entered
USelectError ==
    /\ uPc = "select"
    /\ uPc' = "selerr"
    /\ UNCHANGED <<codecVars, winVars, child_pid, winsize, argv, execFailed,
                   child, slaveOpen, rlist, masterBuf, produced, uData,
                   stdoutLog, stdinBuf, stdinEof, sent, wrPending, ptyIn,
                   echoDue, sigLog, fdOpen, closeCalls, killCalls, exitStatus,
                   uncaught, masterEnded, interrupted>>

\* line 103: `continue`, back to select without reaching line 127
UContinue ==
    /\ uPc = "selerr"
    /\ uPc' = "select"
    /\ UNCHANGED <<codecVars, winVars, child_pid, winsize, argv, execFailed,
                   child, slaveOpen, rlist, masterBuf, produced, uData,
                   stdoutLog, stdinBuf, stdinEof, sent, wrPending, ptyIn,
                   echoDue, sigLog, fdOpen, closeCalls, killCalls, exitStatus,
                   uncaught, masterEnded, interrupted>>

\* lines 105-109, 112-113: os.read(fd, 4096) returns everything that waits
\* on the master side (the chunks of the model are far shorter than 4096
\* bytes), as one bytes object
UMasterRead ==
    /\ uPc = "master"
    /\ \/ /\ "fd" \notin rlist
          /\ uPc' = "stdin"
          /\ UNCHANGED <<masterBuf, uData, masterEnded>>
       \/ /\ "fd" \in rlist /\ masterBuf # <<>>
          /\ uData' = masterBuf
          /\ masterBuf' = <<>>
          /\ uPc' = "mwrite"
          /\ UNCHANGED masterEnded
       \/ \* the slave side is closed: b'' or OSError (EIO)
          /\ "fd" \in rlist /\ masterBuf = <<>>
          /\ masterEnded' = TRUE
          /\ uPc' = OnMasterEnd
          /\ UNCHANGED <<masterBuf, uData>>
    /\ UNCHANGED <<codecVars, winVars, child_pid, winsize, argv, execFailed,
                   child, slaveOpen, rlist, produced, stdoutLog, stdinBuf,
                   stdinEof, sent, wrPending, ptyIn, echoDue, sigLog, fdOpen,
                   closeCalls, killCalls, exitStatus, uncaught, interrupted>>

\* line 110: sys.stdout.write(data) on the unbuffered binary stdout took the
\* whole chunk
StdoutWrite(log, data) == log \o data

\* what one call of the raw write of line 110 can do: take the whole chunk,
\* take a part of it or nothing (stdout shares the open file that line 92
\* made non-blocking: the call returns a short count or None, which line 110
\* drops), or raise OSError
StdoutOutcomes == {"whole", "part", "none", "OSError"}

\* lines 110-113: sys.stdout.write(data); flush; OSError breaks.  The call
\* blocks while the embedder does not read a blocking stdout.
UMasterWrite ==
    /\ uPc = "mwrite"
    /\ \E how \in StdoutOutcomes :
          /\ \/ how = "whole" /\ stdoutLog' = StdoutWrite(stdoutLog, uData)
             \/ how = "part"
                  /\ \E part \in PartsOf(uData) : stdoutLog' = stdoutLog \o part
             \/ how \in {"none", "OSError"} /\ stdoutLog' = stdoutLog
          /\ uPc' = IF how = "OSError" THEN "close" ELSE "stdin"
    /\ uData' = <<>>
    /\ UNCHANGED <<codecVars, winVars, child_pid, winsize, argv, execFailed,
                   child, slaveOpen, rlist, masterBuf, produced, stdinBuf,
                   stdinEof, sent, wrPending, ptyIn, echoDue, sigLog, fdOpen,
                   closeCalls, killCalls, exitStatus, uncaught, masterEnded,
                   interrupted>>

\* lines 115-121, 123-124: read stdin and strip directives; what is left is
\* handed to os.write.  An OSError out of handle_resize_escape is caught at
\* line 123 and the chunk is dropped; any other exception leaves the loop.
UStdin ==
    /\ uPc = "stdin"
    /\ \/ /\ "stdin" \notin rlist
          /\ uPc' = "waitpid"
          /\ UNCHANGED <<stdinBuf, wrPending, winsize, sigLog, uncaught>>
       \/ \* sys.stdin.read raises OSError: pass
          /\ "stdin" \in rlist
          /\ uPc' = "waitpid"
          /\ UNCHANGED <<stdinBuf, wrPending, winsize, sigLog, uncaught>>
       \/ \* line 118: the read returned b'' (end of file)
          /\ "stdin" \in rlist /\ stdinBuf = <<>>
          /\ uPc' = "waitpid"
          /\ UNCHANGED <<stdinBuf, wrPending, winsize, sigLog, uncaught>>
       \/ /\ "stdin" \in rlist /\ stdinBuf # <<>>
          /\ stdinBuf' = <<>>
          /\ \E ioctlOk \in BOOLEAN, errOut \in StderrOutcomes :
             \E killOk \in (IF ioctlOk THEN BOOLEAN ELSE {TRUE}) :
                LET r == handle_resize_escape(stdinBuf, ioctlOk, killOk, errOut)
                IN  /\ winsize' = SizeAfter(winsize, r.events)
                    /\ sigLog' = sigLog \o SignalsOf(winsize, r.events)
                    /\ IF r.raised /\ r.exc = "OSError"
                       THEN /\ uPc' = "waitpid"
                            /\ UNCHANGED <<uncaught, wrPending>>
                       ELSE IF r.raised
                       THEN \* not caught by lines 123, 131
                            /\ uncaught' = TRUE
                            /\ uPc' = "close"
                            /\ UNCHANGED wrPending
                       ELSE /\ UNCHANGED uncaught
                            /\ wrPending' = r.result
                            /\ uPc' = IF r.result = <<>> THEN "waitpid"
                                      ELSE "swrite"
    /\ UNCHANGED <<codecVars, winVars, child_pid, argv, execFailed, child,
                   slaveOpen, rlist, masterBuf, produced, uData, stdoutLog,
                   stdinEof, sent, ptyIn, echoDue, fdOpen, closeCalls,
                   killCalls, exitStatus, masterEnded, interrupted>>

\* lines 122-124: os.write(fd, data) returns (with ECHO set in the terminal
\* the line discipline will put an echo of the bytes on the master, also
\* when no process holds the slave side any more; the echo counts as a chunk
\* the terminal produced) or raises OSError: pass.  The call blocks while
\* the terminal's input queue is full.
UStdinWrite ==
    /\ uPc = "swrite"
    /\ \/ /\ ptyIn' = ptyIn \o wrPending
          /\ \/ UNCHANGED <<echoDue, produced>>
             \/ /\ produced < MaxOut
                /\ echoDue' = Append(echoDue, EchoChunk(wrPending))
                /\ produced' = produced + 1
       \/ UNCHANGED <<ptyIn, echoDue, produced>>
    /\ wrPending' = <<>>
    /\ uPc' = "waitpid"
    /\ UNCHANGED <<codecVars, winVars, child_pid, winsize, argv, execFailed,
                   child, slaveOpen, rlist, masterBuf, uData, stdoutLog,
                   stdinBuf, stdinEof, sent, sigLog, fdOpen, closeCalls,
                   killCalls, exitStatus, uncaught, masterEnded, interrupted>>

\* lines 127-129: os.waitpid(pid, WNOHANG).  For a child the kernel has
\* reaped itself waitpid raises ChildProcessError, which nothing catches.
UWaitpid ==
    /\ uPc = "waitpid"
    /\ \/ /\ child = "zombie"
          /\ child' = "reaped"
          /\ uPc' = "close"
          /\ UNCHANGED uncaught
       \/ /\ child \in {"forked", "sizing", "sized", "alive"}
          /\ uPc' = "select"
          /\ UNCHANGED <<child, uncaught>>
       \/ /\ child = "gone"
          /\ uncaught' = TRUE
          /\ uPc' = "close"
          /\ UNCHANGED child
    /\ UNCHANGED <<codecVars, winVars, child_pid, winsize, argv, execFailed,
                   slaveOpen, rlist, masterBuf, produced, uData, stdoutLog,
                   stdinBuf, stdinEof, sent, wrPending, ptyIn, echoDue,
                   sigLog, fdOpen, closeCalls, killCalls, exitStatus,
                   masterEnded, interrupted>>

\* KeyboardInterrupt raised before the try of line 98: it leaves main()
\* without teardown and the interpreter dies of SIGINT (status -2)
UInterruptEarly ==
    /\ uPc \in PreLoopPcs
    /\ interrupted' = TRUE
    /\ uncaught' = TRUE
    /\ uPc' = "exit"
    /\ exitStatus' = -2
    /\ UNCHANGED <<codecVars, winVars, child_pid, winsize, argv, execFailed,
                   child, slaveOpen, rlist, masterBuf, produced, uData,
                   stdoutLog, stdinBuf, stdinEof, sent, wrPending, ptyIn,
                   echoDue, sigLog, fdOpen, closeCalls, killCalls,
                   masterEnded>>

\* lines 131-132: KeyboardInterrupt raised while the loop runs; what a read
\* had returned and was not yet written is dropped
UInterrupt ==
    /\ uPc \in LoopPcs
    /\ interrupted' = TRUE
    /\ uPc' = "close"
    /\ uData' = <<>>
    /\ wrPending' = <<>>
    /\ \/ UNCHANGED stdinBuf
       \/ /\ uPc = "stdin" /\ "stdin" \in rlist /\ stdinBuf' = <<>>
    /\ UNCHANGED <<codecVars, winVars, child_pid, winsize, argv, execFailed,
                   child, slaveOpen, rlist, masterBuf, produced, stdoutLog,
                   stdinEof, sent, ptyIn, echoDue, sigLog, fdOpen, closeCalls,
                   killCalls, exitStatus, uncaught, masterEnded>>

\* the child process exists and has not exited
ChildLives == child \in {"forked", "sizing", "sized", "alive"}

\* the terminal was hung up while the child lived
HupSent == \E k \in 1..Len(sigLog) : sigLog[k] = "SIGHUP"

\* lines 134-137: os.close(fd), any failure swallowed.  Closing the only
\* descriptor of the master hangs the terminal up: the kernel sends SIGHUP and
\* SIGCONT to the child (its session leader), whether or not the child still
\* holds the slave side open.
UClose ==
    /\ uPc = "close"
    /\ fdOpen' = FALSE
    /\ closeCalls' = closeCalls + 1
    /\ sigLog' = IF fdOpen /\ ChildLives
                 THEN sigLog \o <<"SIGHUP", "SIGCONT">> ELSE sigLog
    /\ uPc' = "kill"
    /\ UNCHANGED <<codecVars, winVars, child_pid, winsize, argv, execFailed,
                   child, slaveOpen, rlist, masterBuf, produced, uData,
                   stdoutLog, stdinBuf, stdinEof, sent, wrPending, ptyIn,
                   echoDue, killCalls, exitStatus, uncaught, masterEnded,
                   interrupted>>

\* lines 138-141: os.kill(pid, SIGTERM), any failure swallowed (a reaped pid
\* raises ProcessLookupError); then main() returns or the exception leaves it
UKill ==
    /\ uPc = "kill"
    /\ killCalls' = killCalls + 1
    /\ sigLog' = IF child \notin {"reaped", "gone"}
                 THEN Append(sigLog, "SIGTERM") ELSE sigLog
    /\ uPc' = "exit"
    /\ exitStatus' = IF uncaught THEN 1 ELSE 0
    /\ UNCHANGED <<codecVars, winVars, child_pid, winsize, argv, execFailed,
                   child, slaveOpen, rlist, masterBuf, produced, uData,
                   stdoutLog, stdinBuf, stdinEof, sent, wrPending, ptyIn,
                   echoDue, fdOpen, closeCalls, uncaught, masterEnded,
                   interrupted>>

\* lines 136, 140: KeyboardInterrupt raised inside one of the two try blocks
\* of the finally clause is swallowed by the bare except, and the call of
\* that block (os.close, os.kill) is skipped when it had not been made yet
UInterruptTeardown ==
    /\ uPc \in TeardownPcs
    /\ interrupted' = TRUE
    /\ \/ UNCHANGED <<uPc, exitStatus>>
       \/ /\ uPc = "close" /\ uPc' = "kill" /\ UNCHANGED exitStatus
       \/ /\ uPc = "kill" /\ uPc' = "exit"
          /\ exitStatus' = IF uncaught THEN 1 ELSE 0
    /\ UNCHANGED <<codecVars, winVars, child_pid, winsize, argv, execFailed,
                   child, slaveOpen, rlist, masterBuf, produced, uData,
                   stdoutLog, stdinBuf, stdinEof, sent, wrPending, ptyIn,
                   echoDue, sigLog, fdOpen, closeCalls, killCalls, uncaught,
                   masterEnded>>

\* ---- environment of main()
\* the child exists and main() has not ended (lines 88-141): what the child
\* and the embedder do after that is not observed by main()
HostRuns ==
    uPc \in {"setsize", "sizing", "setup"} \cup LoopPcs \cup TeardownPcs

\* lines 72-76 in the forked child: it calls set_size on the slave side
UChildSetSizeCall ==
    /\ HostRuns /\ child = "forked" /\ ~HupSent
    /\ child' = "sizing"
    /\ UNCHANGED <<codecVars, winVars, child_pid, winsize, uPc, argv,
                   execFailed, slaveOpen, rlist, masterBuf, produced, uData,
                   stdoutLog, stdinBuf, stdinEof, sent, wrPending, ptyIn,
                   echoDue, sigLog, fdOpen, closeCalls, killCalls, exitStatus,
                   uncaught, masterEnded, interrupted>>

\* lines 76-78 in the forked child: the set_size call returns with the size
\* applied, or its failure is swallowed by the bare except
UChildSetSize ==
    /\ HostRuns /\ child = "sizing"
    /\ \E ioctlOk \in BOOLEAN :
          winsize' =
            IF set_size(PyInt(argv.cols).val, PyInt(argv.rows).val, ioctlOk) = "ok"
            THEN <<PyInt(argv.cols).val, PyInt(argv.rows).val>>
            ELSE winsize
    /\ child' = "sized"
    /\ UNCHANGED <<codecVars, winVars, child_pid, uPc, argv, execFailed,
                   slaveOpen, rlist, masterBuf, produced, uData, stdoutLog,
                   stdinBuf, stdinEof, sent, wrPending, ptyIn, echoDue,
                   sigLog, fdOpen, closeCalls, killCalls, exitStatus,
                   uncaught, masterEnded, interrupted>>

\* line 81 in the forked child: os.execvp; when that raises, the child's
\* interpreter prints the traceback on its terminal and will exit
UChildExec ==
    /\ HostRuns /\ child = "sized" /\ ~HupSent
    /\ child' = "alive"
    /\ \/ UNCHANGED <<execFailed, masterBuf>>
       \/ /\ execFailed' = TRUE
          /\ masterBuf' = Append(masterBuf, OutChunk(0))
    /\ UNCHANGED <<codecVars, winVars, child_pid, winsize, uPc, argv,
                   slaveOpen, rlist, produced, uData, stdoutLog, stdinBuf,
                   stdinEof, sent, wrPending, ptyIn, echoDue, sigLog, fdOpen,
                   closeCalls, killCalls, exitStatus, uncaught, masterEnded,
                   interrupted>>

\* the child, or a descendant that holds its terminal, writes a chunk (on a
\* terminal that was hung up the write fails)
UChildWrite ==
    /\ HostRuns /\ child \in {"alive", "zombie", "reaped", "gone"}
    /\ fdOpen /\ slaveOpen /\ ~execFailed /\ produced < MaxOut
    /\ produced' = produced + 1
    /\ masterBuf' = Append(masterBuf, OutChunk(produced + 1))
    /\ UNCHANGED <<codecVars, winVars, child_pid, winsize, uPc, argv,
                   execFailed, child, slaveOpen, rlist, uData, stdoutLog,
                   stdinBuf, stdinEof, sent, wrPending, ptyIn, echoDue,
                   sigLog, fdOpen, closeCalls, killCalls, exitStatus,
                   uncaught, masterEnded, interrupted>>

\* the last holder of the slave side closes it: the living child closes its
\* terminal, or a descendant that outlived the child does
USlaveClose ==
    /\ HostRuns /\ child \in {"alive", "zombie", "reaped", "gone"}
    /\ slaveOpen /\ ~execFailed
    /\ slaveOpen' = FALSE
    /\ UNCHANGED <<codecVars, winVars, child_pid, winsize, uPc, argv,
                   execFailed, child, rlist, masterBuf, produced, uData,
                   stdoutLog, stdinBuf, stdinEof, sent, wrPending, ptyIn,
                   echoDue, sigLog, fdOpen, closeCalls, killCalls, exitStatus,
                   uncaught, masterEnded, interrupted>>

\* the child exits (the command ends; the forked interpreter, which has no
\* handler for it, is killed by the SIGHUP of a hangup) and waits to be
\* reaped, or (the host inherited SIGCHLD ignored) is reaped by the kernel at
\* once; its terminal stays open only if a descendant of the command holds it
UChildExit ==
    /\ HostRuns
    /\ child = "alive" \/ (ChildLives /\ HupSent)
    /\ child' \in {"zombie", "gone"}
    /\ \E held \in BOOLEAN :
          slaveOpen' = (slaveOpen /\ held /\ ~execFailed /\ child = "alive")
    /\ UNCHANGED <<codecVars, winVars, child_pid, winsize, uPc, argv,
                   execFailed, rlist, masterBuf, produced, uData, stdoutLog,
                   stdinBuf, stdinEof, sent, wrPending, ptyIn, echoDue,
                   sigLog, fdOpen, closeCalls, killCalls, exitStatus,
                   uncaught, masterEnded, interrupted>>

\* the terminal puts the echo of bytes written to the master on the master
\* side: at once, or after select calls that did not yet report the fd
UEchoArrives ==
    /\ HostRuns /\ fdOpen /\ echoDue # <<>>
    /\ masterBuf' = Append(masterBuf, Head(echoDue))
    /\ echoDue' = Tail(echoDue)
    /\ UNCHANGED <<codecVars, winVars, child_pid, winsize, uPc, argv,
                   execFailed, child, slaveOpen, rlist, produced, uData,
                   stdoutLog, stdinBuf, stdinEof, sent, wrPending, ptyIn,
                   sigLog, fdOpen, closeCalls, killCalls, exitStatus, uncaught,
                   masterEnded, interrupted>>

\* the embedder sends a chunk, or closes stdin
UEmbedderSend ==
    /\ HostRuns /\ ~stdinEof /\ sent < MaxIn
    /\ \E c \in UnixChunks : stdinBuf' = stdinBuf \o c
    /\ sent' = sent + 1
    /\ UNCHANGED <<codecVars, winVars, child_pid, winsize, uPc, argv,
                   execFailed, child, slaveOpen, rlist, masterBuf, produced,
                   uData, stdoutLog, stdinEof, wrPending, ptyIn, echoDue,
                   sigLog, fdOpen, closeCalls, killCalls, exitStatus,
                   uncaught, masterEnded, interrupted>>

UEmbedderClose ==
    /\ HostRuns /\ ~stdinEof
    /\ stdinEof' = TRUE
    /\ UNCHANGED <<codecVars, winVars, child_pid, winsize, uPc, argv,
                   execFailed, child, slaveOpen, rlist, masterBuf, produced,
                   uData, stdoutLog, stdinBuf, sent, wrPending, ptyIn,
                   echoDue, sigLog, fdOpen, closeCalls, killCalls, exitStatus,
                   uncaught, masterEnded, interrupted>>

\* the steps of main() whose calls return at once
UPromptStep ==
    \/ UStart \/ UFork \/ USetSizeCall \/ USetSize \/ USetup \/ USelect
    \/ USelectError \/ UContinue \/ UMasterRead \/ UStdin \/ UWaitpid
    \/ UClose \/ UKill

\* the two calls that can block: the write to stdout and the write to the
\* master
UBlockingStep == UMasterWrite \/ UStdinWrite

UHostStep == UPromptStep \/ UBlockingStep

UEnvStep ==
    \/ UInterruptEarly \/ UInterrupt \/ UInterruptTeardown
    \/ UChildSetSizeCall \/ UChildSetSize
    \/ UChildExec \/ UChildWrite \/ USlaveClose \/ UChildExit \/ UEchoArrives
    \/ UEmbedderSend \/ UEmbedderClose

UnixNext == UHostStep \/ UEnvStep

SpecUnix == UnixInit /\ [][UnixNext]_vars

\* the interpreter keeps executing main(); a call that blocks need not return
FairUnix == SpecUnix /\ WF_vars(UPromptStep)

\* ------------------------------------------------------------------------
\* terminal_win.py: WindowsPTY
\* ------------------------------------------------------------------------
\* line 103: len(buffer) > 50
BufBound == 50

\* re.sub(p1|p2|..., '', s): leftmost non-overlapping matches removed, one pass
RECURSIVE RemovePats(_, _)
RemovePats(s, pats) ==
    IF s = <<>> THEN <<>>
    ELSE IF \E p \in pats : StartsWith(s, p)
    THEN LET p == CHOOSE q \in pats : StartsWith(s, q)
         IN  RemovePats(SliceFrom(s, Len(p)), pats)
    ELSE <<Head(s)>> \o RemovePats(Tail(s), pats)

FocusOn  == <<27, 91, 63, 49, 48, 48, 52, 104>>
FocusOff == <<27, 91, 63, 49, 48, 48, 52, 108>>
FocusIn  == <<27, 91, 73>>
FocusOut == <<27, 91, 79>>

\* lines 68-75: three substitutions, one after the other
filter_focus_events(data) ==
    RemovePats(RemovePats(RemovePats(data, {FocusOn, FocusOff}), {FocusIn}),
               {FocusOut})

\* lines 126-134: handle_resize(data); setOk: setwinsize does not raise;
\* errOut: what sys.stderr.write of line 134 does.  Returns the setwinsize
\* calls made, whether "Resize error" was written, and whether the write of
\* line 134 raised (that exception leaves handle_resize).
handle_resize(data, setOk, errOut) ==
    LET params == Slice(data, 8, Len(data) - 1)
        fields == Split(params, 59)
        cols == IF Len(fields) = 2 THEN PyInt(fields[1]) ELSE [ok |-> FALSE, val |-> 0]
        rows == IF Len(fields) = 2 THEN PyInt(fields[2]) ELSE [ok |-> FALSE, val |-> 0]
        parsed == Len(fields) = 2 /\ rows.ok /\ cols.ok
        failed == ~parsed \/ ~setOk
    IN  [calls |-> IF parsed THEN <<<<rows.val, cols.val>>>> ELSE <<>>,
         applied |-> parsed /\ setOk,
         err |-> failed /\ errOut = "ok",
         raised |-> failed /\ errOut # "ok"]

\* lines 96-108: what the inner loop does with buffer after `buffer += c`:
\* "resize" (line 100), "break" (lines 105, 108) or "more" (read on)
InnerStep(buf, c) ==
    IF StartsWith(buf, ResizePrefix)
    THEN IF c = 7 THEN "resize" ELSE "more"
    ELSE IF Len(buf) > BufBound THEN "break"
    ELSE IF ~StartsWith(ResizePrefix, Slice(buf, 0, Len(ResizePrefix)))
    THEN "break"
    ELSE "more"

\* what the embedder types: streams built from at most MaxWinSegs segments
Run == [k \in 1..(BufBound + 2) |-> 120]

WinSegments ==
    { <<97>>, <<27>>, <<27, 93>>, ResizePrefix, B_80_24 \o <<7>>, Run }

RECURSIVE WinConcats(_)
WinConcats(n) ==
    IF n = 0 THEN {<<>>}
    ELSE LET shorter == WinConcats(n - 1)
         IN  shorter \cup {c \o g : c \in shorter, g \in WinSegments}

\* a prefix, more than BufBound characters, then a well-formed body and BEL
LongDirective == ResizePrefix \o Run \o B_80_24 \o <<7>>

WinStreams == WinConcats(MaxWinSegs) \cup {LongDirective}

\* what the child prints
OutChunks == { <<111, 107>>, FocusIn, <<27, 91>> \o FocusIn \o <<73>> }

\* the Unix program is not running
UnixAbsent == UnixIdle /\ child_pid = 0 /\ winsize = <<0, 0>>

\* a few short streams for the two-thread specification
B_132_43 == <<49, 51, 50, 59, 52, 51>>

WinShortStreams ==
    { <<>>, <<97>>, <<27, 97>>, Directive(B_80_24), ResizePrefix \o B_80,
      Directive(B_132_43) }

\* lines 20-25, 142-146: the object main() constructs, and the stream its
\* stdin will deliver
WinInitWith(streams) ==
    /\ CodecIdle
    /\ UnixAbsent
    /\ wPc = "start" /\ oPc = "none"
    /\ wCols = InitialSize[1] /\ wRows = InitialSize[2]
    /\ proc = "None"
    /\ running = TRUE
    /\ procAlive = FALSE /\ ptyDims = <<0, 0>>
    /\ buffer = <<>>
    /\ wInput \in streams /\ wPos = 0 /\ wEof \in BOOLEAN
    /\ readFailed = FALSE
    /\ childIn = <<>> /\ winCalls = <<>> /\ resizeErrs = 0
    /\ ptyOut = <<>> /\ wProduced = 0 /\ wStdout = <<>>

WinInit == WinInitWith(WinShortStreams)

WinInputInit == WinInitWith(WinStreams)

\* lines 27-38: self.proc = PtyProcess.spawn(...) returns with the child
\* running, or raises and start() is left
WSpawn ==
    /\ wPc = "start"
    /\ \/ /\ proc' = "PtyProcess"
          /\ procAlive' = TRUE
          /\ ptyDims' = <<wRows, wCols>>
          /\ wPc' = "spawned"
       \/ /\ wPc' = "return"
          /\ UNCHANGED <<proc, procAlive, ptyDims>>
    /\ UNCHANGED <<codecVars, unixVars, oPc, wCols, wRows, running, buffer,
                   wInput, wPos, wEof, readFailed, childIn, winCalls,
                   resizeErrs, ptyOut, wProduced, wStdout>>

\* lines 41-42: the reader thread is started
WThreadStart ==
    /\ wPc = "spawned"
    /\ oPc' = "loop"
    /\ wPc' = "enter"
    /\ UNCHANGED <<codecVars, unixVars, wCols, wRows, proc, running, procAlive,
                   ptyDims, buffer, wInput, wPos, wEof, readFailed, childIn,
                   winCalls, resizeErrs, ptyOut, wProduced, wStdout>>

\* lines 45, 78-79: handle_input is called, buffer = '' and the try is entered
WEnter ==
    /\ wPc = "enter"
    /\ buffer' = <<>>
    /\ wPc' = "loop"
    /\ UNCHANGED <<codecVars, unixVars, oPc, wCols, wRows, proc, running,
                   procAlive, ptyDims, wInput, wPos, wEof, readFailed, childIn,
                   winCalls, resizeErrs, ptyOut, wProduced, wStdout>>

\* line 80: while self.running and self.proc.isalive()
WLoopTest ==
    /\ wPc = "loop"
    /\ wPc' = IF running /\ procAlive THEN "read" ELSE "finally"
    /\ UNCHANGED <<codecVars, unixVars, oPc, wCols, wRows, proc, running,
                   procAlive, ptyDims, buffer, wInput, wPos, wEof, readFailed,
                   childIn, winCalls, resizeErrs, ptyOut, wProduced, wStdout>>

\* self.proc.write(s) of pywinpty: a live child takes the string; a child that
\* has exited makes write raise (EOFError: break, line 117; any other
\* exception: sleep and loop on, line 119)
WriteOutcomes == IF procAlive THEN {"ok"} ELSE {"EOFError", "Exception"}

AfterWrite(outcome) == IF outcome = "EOFError" THEN "finally" ELSE "loop"

\* lines 83-90, 114-120: the blocking read of one character returns
WReadOuter ==
    /\ wPc = "read"
    /\ \/ \* end of stdin: break
          /\ wPos = Len(wInput) /\ wEof
          /\ wPc' = "finally"
          /\ UNCHANGED <<buffer, wPos, childIn>>
       \/ /\ wPos < Len(wInput) /\ wInput[wPos + 1] = 27
          /\ wPos' = wPos + 1
          /\ buffer' = <<27>>
          /\ wPc' = "inner"
          /\ UNCHANGED childIn
       \/ \* self.proc.write(data)
          /\ wPos < Len(wInput) /\ wInput[wPos + 1] # 27
          /\ wPos' = wPos + 1
          /\ \E outcome \in WriteOutcomes :
                /\ childIn' = IF outcome = "ok"
                              THEN Append(childIn, <<wInput[wPos + 1]>>)
                              ELSE childIn
                /\ wPc' = AfterWrite(outcome)
          /\ UNCHANGED buffer
    /\ UNCHANGED <<codecVars, unixVars, oPc, wCols, wRows, proc, running,
                   procAlive, ptyDims, wInput, wEof, readFailed, winCalls,
                   resizeErrs, ptyOut, wProduced, wStdout>>

\* lines 91-110: one turn of the inner loop, its read returns
WReadInner ==
    /\ wPc = "inner"
    /\ \/ \* end of stdin: break with the buffer kept
          /\ wPos = Len(wInput) /\ wEof
          /\ wPc' = "flush"
          /\ UNCHANGED <<buffer, wPos>>
       \/ /\ wPos < Len(wInput)
          /\ wPos' = wPos + 1
          /\ LET c == wInput[wPos + 1]
                 buf == Append(buffer, c)
                 step == InnerStep(buf, c)
             IN  /\ buffer' = buf
                 /\ wPc' = IF step = "resize" THEN "resize"
                           ELSE IF step = "break" THEN "flush" ELSE "inner"
    /\ UNCHANGED <<codecVars, unixVars, oPc, wCols, wRows, proc, running,
                   procAlive, ptyDims, wInput, wEof, readFailed, childIn,
                   winCalls, resizeErrs, ptyOut, wProduced, wStdout>>

\* lines 83, 119-120: the sys.stdin.read(1) of the outer loop raises (its
\* stream fails under it): `except Exception` sleeps, then the loop test.
\* The main thread does not get there by itself: this is a step of its
\* environment.
WReadOuterRaises ==
    /\ wPc = "read"
    /\ readFailed' = TRUE
    /\ wPc' = "loop"
    /\ UNCHANGED <<codecVars, unixVars, oPc, wCols, wRows, proc, running,
                   procAlive, ptyDims, buffer, wInput, wPos, wEof, childIn,
                   winCalls, resizeErrs, ptyOut, wProduced, wStdout>>

\* lines 93, 109-110: the sys.stdin.read(1) of the inner loop raises: the
\* bare except breaks with the buffer kept, and line 113 will write it
WReadInnerRaises ==
    /\ wPc = "inner"
    /\ readFailed' = TRUE
    /\ wPc' = "flush"
    /\ UNCHANGED <<codecVars, unixVars, oPc, wCols, wRows, proc, running,
                   procAlive, ptyDims, buffer, wInput, wPos, wEof, childIn,
                   winCalls, resizeErrs, ptyOut, wProduced, wStdout>>

\* lines 100-102 with 126-134: self.handle_resize(buffer) runs in the main
\* thread and returns; then buffer = '' and break.  An exception out of
\* line 134 is caught by the bare except of line 109: break, and line 101 did
\* not run, so the buffer is kept.
WResize ==
    /\ wPc = "resize"
    /\ \E setOk \in BOOLEAN, errOut \in StderrOutcomes :
          LET h == handle_resize(buffer, setOk, errOut)
          IN  /\ winCalls' = winCalls \o h.calls
              /\ ptyDims' = IF h.applied THEN h.calls[1] ELSE ptyDims
              /\ resizeErrs' = resizeErrs + (IF h.err THEN 1 ELSE 0)
              /\ buffer' = IF h.raised THEN buffer ELSE <<>>
    /\ wPc' = "flush"
    /\ UNCHANGED <<codecVars, unixVars, oPc, wCols, wRows, proc, running,
                   procAlive, wInput, wPos, wEof, readFailed, childIn, ptyOut,
                   wProduced, wStdout>>

\* lines 112-113: if buffer: self.proc.write(buffer)
WFlush ==
    /\ wPc = "flush"
    /\ IF buffer = <<>>
       THEN wPc' = "loop" /\ UNCHANGED childIn
       ELSE \E outcome \in WriteOutcomes :
               /\ childIn' = IF outcome = "ok" THEN Append(childIn, buffer)
                             ELSE childIn
               /\ wPc' = AfterWrite(outcome)
    /\ buffer' = <<>>
    /\ UNCHANGED <<codecVars, unixVars, oPc, wCols, wRows, proc, running,
                   procAlive, ptyDims, wInput, wPos, wEof, readFailed,
                   winCalls, resizeErrs, ptyOut, wProduced, wStdout>>

\* lines 123-124: finally: self.running = False; handle_input and start()
\* return
WFinally ==
    /\ wPc = "finally"
    /\ running' = FALSE
    /\ wPc' = "return"
    /\ UNCHANGED <<codecVars, unixVars, oPc, wCols, wRows, proc, procAlive,
                   ptyDims, buffer, wInput, wPos, wEof, readFailed, childIn,
                   winCalls, resizeErrs, ptyOut, wProduced, wStdout>>

\* KeyboardInterrupt raised in the main thread; a run has at most one.
\* Nothing in start() or handle_input names it: only the bare except of
\* line 109 catches it, the finally clause of line 123 runs on its way out.
WInterrupt ==
    /\ ~interrupted
    /\ interrupted' = TRUE
    /\ \/ \* lines 27-45, 78: before the spawn, after it with no reader
          \* thread yet, or with the reader thread started and handle_input
          \* not yet inside its try; start() is left with running still True
          /\ wPc \in {"start", "spawned", "enter"}
          /\ wPc' = "return"
          /\ UNCHANGED <<procAlive, ptyDims, oPc, buffer, wPos, winCalls,
                         resizeErrs>>
       \/ \* lines 80, 112-120: the finally clause runs, a pending buffer is
          \* dropped
          /\ wPc \in {"loop", "flush"}
          /\ wPc' = "finally"
          /\ UNCHANGED <<procAlive, ptyDims, oPc, buffer, wPos, winCalls,
                         resizeErrs>>
       \/ \* line 83: while the read waits, or once it has returned a
          \* character, which is then lost
          /\ wPc = "read"
          /\ wPc' = "finally"
          /\ \/ UNCHANGED wPos
             \/ wPos < Len(wInput) /\ wPos' = wPos + 1
          /\ UNCHANGED <<procAlive, ptyDims, oPc, buffer, winCalls,
                         resizeErrs>>
       \/ \* lines 93-96 inside the inner try: break with the buffer kept;
          \* a character the read had returned is lost
          /\ wPc = "inner"
          /\ wPc' = "flush"
          /\ \/ UNCHANGED wPos
             \/ wPos < Len(wInput) /\ wPos' = wPos + 1
          /\ UNCHANGED <<procAlive, ptyDims, oPc, buffer, winCalls,
                         resizeErrs>>
       \/ \* lines 90-91 and the jump back to line 91 lie outside the inner
          \* try: the finally clause runs and the buffer is dropped
          /\ wPc = "inner"
          /\ wPc' = "finally"
          /\ UNCHANGED <<procAlive, ptyDims, oPc, buffer, wPos, winCalls,
                         resizeErrs>>
       \/ \* inside handle_resize (its `except Exception` lets it pass) or
          \* before line 101: caught at line 109 with the buffer kept, before
          \* any effect of the call or after them
          /\ wPc = "resize"
          /\ wPc' = "flush"
          /\ \/ UNCHANGED <<winCalls, ptyDims, resizeErrs>>
             \/ \E setOk \in BOOLEAN :
                   LET h == handle_resize(buffer, setOk, "ok")
                   IN  /\ winCalls' = winCalls \o h.calls
                       /\ ptyDims' = IF h.applied THEN h.calls[1] ELSE ptyDims
                       /\ resizeErrs' = resizeErrs + (IF h.err THEN 1 ELSE 0)
          /\ UNCHANGED <<procAlive, oPc, buffer, wPos>>
       \/ \* line 123: in the finally clause before line 124 has run
          /\ wPc = "finally"
          /\ wPc' = "return"
          /\ UNCHANGED <<procAlive, ptyDims, oPc, buffer, wPos, winCalls,
                         resizeErrs>>
    /\ UNCHANGED <<codecVars, unixRest, wCols, wRows, proc, running, wInput,
                   wEof, readFailed, childIn, ptyOut, wProduced, wStdout>>

\* main() has returned or an exception has left it: the interpreter exits,
\* and its daemon thread with it
WExit ==
    /\ wPc = "return"
    /\ wPc' = "done"
    /\ UNCHANGED <<codecVars, unixVars, oPc, wCols, wRows, proc, running,
                   procAlive, ptyDims, buffer, wInput, wPos, wEof, readFailed,
                   childIn, winCalls, resizeErrs, ptyOut, wProduced, wStdout>>

\* the reader thread is a daemon: it runs from its start at line 42 until
\* the interpreter exits
ReaderRuns == oPc # "none" /\ wPc # "done"

\* the child is observed from the spawn until the interpreter exits
WHostRuns == proc # "None" /\ wPc # "done"

\* line 50: while self.running and self.proc.isalive()
OLoopTest ==
    /\ ReaderRuns /\ oPc = "loop"
    /\ oPc' = IF running /\ procAlive THEN "read" ELSE "finally"
    /\ UNCHANGED <<codecVars, unixVars, wPc, wCols, wRows, proc, running,
                   procAlive, ptyDims, buffer, wInput, wPos, wEof, readFailed,
                   childIn, winCalls, resizeErrs, ptyOut, wProduced, wStdout>>

\* lines 57-58 then line 50: the reader thread only relays; after the write it
\* is back at the loop test
AfterOutput == "loop"

\* lines 52-62: self.proc.read(4096), filter, write to stdout
ORead ==
    /\ ReaderRuns /\ oPc = "read"
    /\ \/ /\ ptyOut # <<>>
          /\ ptyOut' = Tail(ptyOut)
          /\ LET data == filter_focus_events(Head(ptyOut))
             IN  \E writeOk \in BOOLEAN :
                   wStdout' = IF data # <<>> /\ writeOk
                              THEN Append(wStdout, data) ELSE wStdout
          /\ oPc' = AfterOutput
       \/ \* EOFError: break
          /\ ptyOut = <<>> /\ ~procAlive
          /\ oPc' = "finally"
          /\ UNCHANGED <<ptyOut, wStdout>>
    /\ UNCHANGED <<codecVars, unixVars, wPc, wCols, wRows, proc, running,
                   procAlive, ptyDims, buffer, wInput, wPos, wEof, readFailed,
                   childIn, winCalls, resizeErrs, wProduced>>

\* lines 65-66: finally: self.running = False
OFinally ==
    /\ ReaderRuns /\ oPc = "finally"
    /\ running' = FALSE
    /\ oPc' = "done"
    /\ UNCHANGED <<codecVars, unixVars, wPc, wCols, wRows, proc, procAlive,
                   ptyDims, buffer, wInput, wPos, wEof, readFailed, childIn,
                   winCalls, resizeErrs, ptyOut, wProduced, wStdout>>

\* ---- environment: the child prints, the child exits
WChildWrite ==
    /\ WHostRuns /\ procAlive /\ wProduced < MaxWinOut
    /\ \E c \in OutChunks : ptyOut' = Append(ptyOut, c)
    /\ wProduced' = wProduced + 1
    /\ UNCHANGED <<codecVars, unixVars, wPc, oPc, wCols, wRows, proc, running,
                   procAlive, ptyDims, buffer, wInput, wPos, wEof, readFailed,
                   childIn, winCalls, resizeErrs, wStdout>>

WChildExit ==
    /\ WHostRuns /\ procAlive
    /\ procAlive' = FALSE
    /\ UNCHANGED <<codecVars, unixVars, wPc, oPc, wCols, wRows, proc, running,
                   ptyDims, buffer, wInput, wPos, wEof, readFailed, childIn,
                   winCalls, resizeErrs, ptyOut, wProduced, wStdout>>

WInputStep ==
    \/ WSpawn \/ WThreadStart \/ WEnter \/ WLoopTest \/ WReadOuter
    \/ WReadInner \/ WResize \/ WFlush \/ WFinally \/ WExit

WOutputStep == OLoopTest \/ ORead \/ OFinally

WReadRaises == WReadOuterRaises \/ WReadInnerRaises

WEnvStep == WChildWrite \/ WChildExit \/ WInterrupt \/ WReadRaises

WinNext == WInputStep \/ WOutputStep \/ WEnvStep

\* both threads, a child that prints and exits, short stdin streams
SpecWin == WinInit /\ [][WinNext]_vars

\* each thread keeps running while it has a step to take; a read that blocks
\* is a thread with no step
FairWin == SpecWin /\ WF_vars(WInputStep) /\ WF_vars(WOutputStep)

\* both threads and a child that exits but prints nothing, with the long
\* stdin streams the input codec is to be exercised on
WinInputNext ==
    WInputStep \/ WOutputStep \/ WChildExit \/ WInterrupt \/ WReadRaises

SpecWinInput == WinInputInit /\ [][WinInputNext]_vars

\* ------------------------------------------------------------------------
\* Shapes of chunks the codec claims speak about
\* ------------------------------------------------------------------------
ContainsPrefix(s) ==
    \E i \in 0..(Len(s) - 9) : Slice(s, i, i + 9) = ResizePrefix

\* index of the first occurrence of the nine-byte prefix, or -1
FirstPrefix(s) ==
    LET hits == {i \in 0..(Len(s) - 9) : Slice(s, i, i + 9) = ResizePrefix}
    IN  IF hits = {} THEN -1
        ELSE CHOOSE i \in hits : \A k \in hits : i <= k

\* a non-empty run of the ASCII digits 0-9
IsDecimal(s) == s # <<>> /\ \A k \in 1..Len(s) : s[k] >= 48 /\ s[k] <= 57

\* s = P1 + ESC ] RESIZE ; body BEL + P2 with the first prefix at P1's end:
\* [ok, p1, body, p2]
SplitAtDirective(s) ==
    LET i == FirstPrefix(s)
        e == IF i = -1 THEN -1 ELSE Find(s, 7, i + 9)
    IN  IF i = -1 \/ e = -1
        THEN [ok |-> FALSE, p1 |-> <<>>, body |-> <<>>, p2 |-> <<>>]
        ELSE [ok |-> TRUE, p1 |-> Slice(s, 0, i),
              body |-> Slice(s, i + 9, e), p2 |-> SliceFrom(s, e + 1)]

\* body = <c> ; <r> with base-10 integers that fit the winsize fields
WellFormedBody(body) ==
    LET f == Split(body, 59)
    IN  /\ Len(f) = 2
        /\ IsDecimal(f[1]) /\ IsDecimal(f[2])
        /\ FitsH(DigitsVal(f[1], 0)) /\ FitsH(DigitsVal(f[2], 0))

BodyCols(body) == DigitsVal(Split(body, 59)[1], 0)
BodyRows(body) == DigitsVal(Split(body, 59)[2], 0)

\* a body int() or the unpacking rejects: non-numeric field or wrong count
MalformedBody(body) ==
    LET dec == Utf8Decode(body)
        f == Split(dec.chars, 59)
    IN  ~dec.ok \/ Len(f) # 2 \/ ~PyInt(f[1]).ok \/ ~PyInt(f[2]).ok

\* exactly one terminated directive inside padding free of the prefix
OneDirective(s) ==
    LET d == SplitAtDirective(s)
    IN  d.ok /\ WellFormedBody(d.body) /\ ~ContainsPrefix(d.p2)

OneMalformed(s) ==
    LET d == SplitAtDirective(s)
    IN  d.ok /\ MalformedBody(d.body) /\ ~ContainsPrefix(d.p2)

\* two terminated well-formed directives, D1 then D2
TwoDirectives(s) ==
    LET d == SplitAtDirective(s)
    IN  d.ok /\ WellFormedBody(d.body) /\ OneDirective(d.p2)

\* ------------------------------------------------------------------------
\* Claims about handle_resize_escape (SpecCodec)
\* ------------------------------------------------------------------------

\* C1: for a chunk P1 + ESC ] RESIZE ; c ; r BEL + P2 the call returns exactly
\* P1 + P2 and applies exactly one resize, set_size(cols = c, rows = r).
\* Stated as the claim; the code violates it.
C1_DirectiveStrippedAndApplied ==
    (cPc # "call" /\ OneDirective(cData) /\ cIoctlOk) =>
        LET d == SplitAtDirective(cData)
        IN  /\ cPc = "returned"
            /\ cRet.result = d.p1 \o d.p2
            /\ EventsOf(cRet.events, "set_size")
                 = <<<<"set_size", BodyCols(d.body), BodyRows(d.body)>>>>

\* C2: a chunk that does not contain the prefix ESC ] RESIZE ; is returned
\* byte for byte, and neither set_size nor SIGWINCH is performed.
C2_PassThroughIdentity ==
    (cPc # "call" /\ ~ContainsPrefix(cData)) =>
        /\ cPc = "returned"
        /\ cRet.result = cData
        /\ EventsOf(cRet.events, "set_size") = <<>>
        /\ EventsOf(cRet.events, "SIGWINCH") = <<>>
        /\ winsize = InitialSize

\* C2 witness: a returned call on a prefix-free chunk that nearly holds a
\* directive (ESC ] RESIZE without the ';', and a BEL).
C2_Witness ==
    /\ cPc = "returned"
    /\ ~ContainsPrefix(cData)
    /\ \E i \in 0..Len(cData) :
           Slice(cData, i, i + 9) = SubSeq(ResizePrefix, 1, 8) \o <<7>>

\* C3: a terminated directive with a malformed body causes no resize and no
\* SIGWINCH, and no byte of its span reaches the returned payload.
\* Stated as the claim; the code violates it.
C3_MalformedConsumed ==
    (cPc # "call" /\ OneMalformed(cData)) =>
        LET d == SplitAtDirective(cData)
        IN  /\ cPc = "returned"
            /\ cRet.result = d.p1 \o d.p2
            /\ EventsOf(cRet.events, "set_size") = <<>>
            /\ EventsOf(cRet.events, "SIGWINCH") = <<>>

\* C4: two well-formed directives D1, D2 in one chunk are applied in that
\* order, so the pty ends with D2's size.  Stated as the claim; the code
\* violates it.
C4_LeftToRightOrder ==
    (cPc # "call" /\ TwoDirectives(cData) /\ cIoctlOk) =>
        LET d1 == SplitAtDirective(cData)
            d2 == SplitAtDirective(d1.p2)
        IN  /\ EventsOf(cRet.events, "set_size")
                 = << <<"set_size", BodyCols(d1.body), BodyRows(d1.body)>>,
                      <<"set_size", BodyCols(d2.body), BodyRows(d2.body)>> >>
            /\ winsize = <<BodyCols(d2.body), BodyRows(d2.body)>>

\* ------------------------------------------------------------------------
\* Claims about main() of terminal_pty.py (SpecUnix, FairUnix)
\* ------------------------------------------------------------------------

\* C8: once a read of the master fd returns b'' or raises OSError, the loop is
\* left in that same iteration (the stdin branch and waitpid are skipped) and
\* the session ends: the fd is closed and SIGTERM attempted, whether or not
\* stdin ever becomes readable.  Stated as the claim; the code violates it.
C8_MasterEndTerminates ==
    /\ [][(masterEnded' /\ ~masterEnded) => uPc' = "close"]_vars
    /\ masterEnded ~> (uPc = "exit")
    /\ []((masterEnded /\ uPc = "exit") =>
            (~fdOpen /\ closeCalls = 1 /\ killCalls = 1))

\* C9: when the child's execvp fails, the host process ends with a non-zero
\* exit status.  Stated as the claim; the code violates it.
C9_ExecFailureExitsNonZero ==
    (uPc = "exit" /\ execFailed) => exitStatus # 0

\* ------------------------------------------------------------------------
\* Claims about handle_input of terminal_win.py (SpecWinInput)
\* ------------------------------------------------------------------------
RECURSIVE Flat(_)
Flat(writes) == IF writes = <<>> THEN <<>> ELSE Head(writes) \o Flat(Tail(writes))

\* the main thread is between two characters of plain input
BetweenInputs == wPc \in {"loop", "read"}

\* C5: a directive prefix ESC ] RESIZE ; that the input ends before a BEL
\* arrives is never written to the child as plain data (no proc.write
\* argument starts with the prefix and holds no BEL); runs in which the
\* input ends, without a KeyboardInterrupt and without a read of stdin that
\* raised.  Stated as the claim; the code violates it.
C5_TruncatedPrefixNotForwarded ==
    (~interrupted /\ ~readFailed) =>
        \A k \in 1..Len(childIn) :
            ~(StartsWith(childIn[k], ResizePrefix) /\ Find(childIn[k], 7, 0) = -1)

\* C6: a complete well-formed directive read one character at a time gives
\* exactly one setwinsize(rows = r, cols = c), and none of its characters is
\* written to the child (in a run without a KeyboardInterrupt).  Stated as
\* the claim; the code violates it.
C6_DirectiveAppliedOnce ==
    (OneDirective(wInput) /\ wPos = Len(wInput) /\ BetweenInputs /\ procAlive
       /\ ~interrupted) =>
        LET d == SplitAtDirective(wInput)
        IN  /\ winCalls = <<<<BodyRows(d.body), BodyCols(d.body)>>>>
            /\ ~ContainsPrefix(Flat(childIn))

\* no directive completes within the bound: every prefix in s is followed by
\* more than BufBound characters before the next BEL (or by no BEL at all)
NoneCompletesInBound(s) ==
    \A i \in 0..(Len(s) - 1) :
        Slice(s, i, i + 9) = ResizePrefix =>
            LET e == Find(s, 7, i)
            IN  e = -1 \/ e - i + 1 > BufBound

\* C7: a pending buffer that does not complete a directive within the
\* 50-character bound reaches the child verbatim and in order, no character
\* lost and no resize applied: with a live child and no KeyboardInterrupt,
\* whenever the main thread is between inputs everything read so far has
\* been written.  Stated as the claim; the code violates it.
C7_UnfinishedForwardedVerbatim ==
    (NoneCompletesInBound(wInput) /\ BetweenInputs /\ procAlive
       /\ ~interrupted) =>
        /\ Flat(childIn) = Slice(wInput, 0, wPos)
        /\ winCalls = <<>>

\* ------------------------------------------------------------------------
\* Claims about the WindowsPTY object and its two threads (SpecWin, FairWin)
\* ------------------------------------------------------------------------

\* the process was spawned (line 35 returned)
Spawned == proc # "None"

\* C11: the dimensions recorded on the object (cols, rows) equal the last
\* dimensions applied to the PTY: the spawn dimensions, then each successful
\* setwinsize; after a complete directive for cols = c, rows = r read on a live
\* child the recorded dimensions are (c, r).  Stated as the claim; the code
\* violates it.
C11_RecordedDimsFollowResize ==
    /\ Spawned => ptyDims = <<wRows, wCols>>
    /\ (Spawned /\ OneDirective(wInput) /\ wPos = Len(wInput) /\ BetweenInputs
          /\ procAlive /\ ~interrupted) =>
         LET d == SplitAtDirective(wInput)
         IN  <<wCols, wRows>> = <<BodyCols(d.body), BodyRows(d.body)>>


FocusSeqs == {FocusOn, FocusOff, FocusIn, FocusOut}

\* s contains one of the four focus sequences
HasFocusSeq(s) ==
    \E i \in 0..(Len(s) - 1) : \E p \in FocusSeqs : Slice(s, i, i + Len(p)) = p

\* C12: nothing written to stdout by the reader thread contains one of the
\* focus sequences ESC [ ? 1004 h, ESC [ ? 1004 l, ESC [ I, ESC [ O, also
\* when one only forms once an inner sequence was removed; so the stream the
\* embedder receives contains none.  Stated as the claim; the code violates
\* it.
C12_NoFocusSequenceForwarded ==
    /\ \A k \in 1..Len(wStdout) : ~HasFocusSeq(wStdout[k])
    /\ ~HasFocusSeq(Flat(wStdout))

\* C14: the pending buffer of handle_input never holds more than the
\* 50-character bound plus the character that exceeded it.  Stated as the
\* claim; the code violates it.
C14_BufferBounded == Len(buffer) <= BufBound + 1

\* C15: once the child has exited or the reader thread has cleared running,
\* the main thread leaves handle_input and the program ends, without another
\* character from stdin (the main thread is never left waiting for one, and
\* it reaches the end of start()); and running, once False, stays False.
\* Stated as the claim; the code violates it.
C15_InputWorkerFollows ==
    /\ [][running' => running]_vars
    /\ []((Spawned /\ (~procAlive \/ ~running) /\ wPc # "done")
            => ENABLED WInputStep)
    /\ (Spawned /\ (~procAlive \/ ~running)) ~> (wPc = "done")

\* ------------------------------------------------------------------------
\* Further claims about terminal_pty.py (SpecCodec, SpecUnix, FairUnix)
\* ------------------------------------------------------------------------

\* a body of two integers of which one does not fit a winsize field
OutOfRangeBody(body) ==
    LET dec == Utf8Decode(body)
        f == Split(dec.chars, 59)
    IN  /\ dec.ok
        /\ Len(f) = 2 /\ PyInt(f[1]).ok /\ PyInt(f[2]).ok
        /\ ~(FitsH(PyInt(f[1]).val) /\ FitsH(PyInt(f[2]).val))

\* one terminated directive whose decoding or resize fails
OneFailing(s, ioctlOk, killOk) ==
    LET d == SplitAtDirective(s)
    IN  /\ d.ok /\ ~ContainsPrefix(d.p2)
        /\ \/ MalformedBody(d.body)
           \/ OutOfRangeBody(d.body)
           \/ WellFormedBody(d.body) /\ (~ioctlOk \/ ~killOk)

\* C13: a directive whose body does not decode or whose resize fails
\* (non-integer field, wrong field count, failing ioctl or kill, a dimension
\* that does not fit) is reported on stderr and discarded, and nothing
\* propagates into the session loop: the call returns and the relay goes on.
\* Stated as the claim; the code violates it.
C13_ResizeFailureReportedAndDiscarded ==
    (cPc # "call" /\ OneFailing(cData, cIoctlOk, cKillOk)) =>
        LET d == SplitAtDirective(cData)
        IN  /\ cPc = "returned"
            /\ cRet.result = d.p1 \o d.p2
            /\ EventsOf(cRet.events, "stderr") # <<>>
            /\ EventsOf(cRet.events, "SIGWINCH") = <<>>
            /\ (~WellFormedBody(d.body) \/ ~cIoctlOk) => winsize = InitialSize

\* C16: every return to select passes through the waitpid of line 127 (no
\* path of an iteration skips it), so once the child has exited the loop is
\* left.  Stated as the claim; the code violates it.
C16_LivenessCheckedEachIteration ==
    /\ [][(uPc' = "select" /\ uPc # "select") => uPc \in {"setup", "waitpid"}]_vars
    /\ (child = "zombie" /\ uPc \in LoopPcs) ~> (uPc \notin LoopPcs)

\* C17: the loop is left only because the master read ended, the child was
\* reaped or KeyboardInterrupt was raised; an error of one direction (stdin
\* read, write to the master, write to stdout) never ends it.  Stated as the
\* claim; the code violates it.
C17_OnlyEndOfSessionLeavesLoop ==
    [][(uPc \in LoopPcs /\ uPc' \notin LoopPcs) =>
          \/ masterEnded' /\ ~masterEnded
          \/ child' = "reaped" /\ child # "reaped"
          \/ uPc = "waitpid" /\ child = "gone"
          \/ interrupted' /\ ~interrupted]_vars

\* C18: on every path out of the loop the master fd is closed, then SIGTERM
\* is attempted on the child only if it was not already reaped, each at most
\* once, and main() ends without waiting for the child.  Stated as the claim
\* for a teardown that no KeyboardInterrupt disturbs; the code violates it.
C18_TeardownSignalsLiveChildOnly ==
    /\ [](closeCalls <= 1 /\ killCalls <= 1)
    /\ [][(uPc \in LoopPcs /\ uPc' \notin LoopPcs) => uPc' = "close"]_vars
    /\ [][(uPc = "kill" /\ uPc' = "exit" /\ ~interrupted') =>
            /\ closeCalls' = 1 /\ ~fdOpen'
            /\ killCalls' = (IF child = "reaped" THEN 0 ELSE 1)]_vars

\* p occurs in s
Contains(s, p) ==
    \E i \in 0..(Len(s) - Len(p)) : Slice(s, i, i + Len(p)) = p

\* C20: what has been written to stdout is the concatenation, in read order,
\* of the chunks read from the master fd: when the write of line 110 has
\* returned and the iteration goes on to its stdin branch, the chunk read
\* has been appended unmodified, and stdout changes in no other step; and
\* nothing that came from a directive on stdin (such as the terminal's echo
\* of one) is ever written to stdout.  Stated as the claim; the code violates
\* it.
C20_StdoutIsConcatenationOfReads ==
    /\ [][(uPc = "mwrite" /\ uPc' = "stdin") =>
            stdoutLog' = stdoutLog \o uData]_vars
    /\ [][stdoutLog' # stdoutLog => uPc = "mwrite"]_vars
    /\ [](\A k \in 1..Len(stdoutLog) :
            ~Contains(stdoutLog[k].bytes, EchoOf(ResizePrefix)))

\* ------------------------------------------------------------------------
\* Resizes in progress (SpecUnix)
\* ------------------------------------------------------------------------

\* how many resize calls are being executed: the main thread of the Windows
\* variant inside handle_resize (its reader thread calls none); in the Unix
\* variant main() inside the set_size of line 88 and the forked child inside
\* the set_size of line 76 (the set_size of handle_resize_escape runs within
\* the one step of the stdin branch)
ResizesInProgress ==
    (IF wPc = "resize" THEN 1 ELSE 0)
      + (IF uPc = "sizing" THEN 1 ELSE 0)
      + (IF child = "sizing" THEN 1 ELSE 0)

=============================================================================
